---- MODULE Spec2Model ----
(***************************************************************************)
(* Model of the blood-group-collector services.                            *)
(*                                                                         *)
(*  - login service  (src/login-service/server.js): POST /register and     *)
(*    POST /login over the users table, bcrypt digests and JWT issuance.   *)
(*  - donor records service (src/backend/server.js): POST /submit,         *)
(*    GET /data and DELETE /data/:id over the blood_data table.            *)
(*                                                                         *)
(* Every async handler is split at its await points: each await is a       *)
(* suspension point at which other requests may run.                       *)
(***************************************************************************)
EXTENDS Integers, Sequences, FiniteSets, TLC

VARIABLES
    JWT_SECRET,   \* process.env.JWT_SECRET of the login service
    listening,    \* "init" before app.listen, "up" while serving, "crashed"
    users,        \* rows of the users table, in heap order
    reqs,         \* login-service requests, by request slot
    now,          \* wall clock, seconds (the resolution of iat / exp)
    ticks,        \* number of clock advances so far
    blood_data,   \* rows of the blood_data table
    nextId,       \* next value of the blood_data id sequence
    LOG_LEVEL,    \* process.env.LOG_LEVEL of the donor records service
    dreqs         \* donor-service requests, by request slot

vars == <<JWT_SECRET, listening, users, reqs, now, ticks,
          LOG_LEVEL, blood_data, nextId, dreqs>>

loginVars == <<JWT_SECRET, listening, users, reqs, now, ticks>>
donorVars == <<LOG_LEVEL, blood_data, nextId, dreqs>>

----------------------------------------------------------------------------
(* Bounds of the model *)

MaxReq   == 2    \* login-service requests in one behaviour
MaxTicks == 2    \* clock advances in one behaviour
MaxDReq  == 3    \* donor-service requests in one behaviour

----------------------------------------------------------------------------
(* Values *)

Undefined == "<undefined>"   \* a field absent from req.body / from the environment

Names     == {"Alice"}
Emails    == {"a@x.com", "b@x.com"}
Passwords == {"secret123", "wrong"}
Salts     == {"salt1", "salt2"}
Secrets   == {"k3y"}

Reqs == 1..MaxReq

\* jwt.sign(..., { expiresIn: '1h' }): '1h' is 3600 seconds
OneHour == 3600

\* clock advances the model takes
TickSteps == {1, OneHour}

----------------------------------------------------------------------------
(* Password hasher: bcrypt *)

\* the one-way function of a salt and a plaintext
BcryptDigest(salt, data) == <<salt, data>>

\* bcrypt.hash(password, 10) for the salt it generated: the digest string
\* carries the salt next to the hash
bcrypt_hash(data, salt) == [salt |-> salt, hash |-> BcryptDigest(salt, data)]

\* bcrypt.compare(password, digest): hash again with the digest's salt
bcrypt_compare(data, digest) == bcrypt_hash(data, digest.salt) = digest

NoDigest == [salt |-> "", hash |-> <<"", "">>]

----------------------------------------------------------------------------
(* Token issuer: jsonwebtoken *)

NoToken == [email |-> "", iat |-> -1, exp |-> -1, sig |-> ""]

\* jwt.sign({ email }, secret, { expiresIn: '1h' }) at clock time t
jwt_sign_short(email, secret, t) ==
    [email |-> email, iat |-> t, exp |-> t + 60, sig |-> secret]

jwt_sign(email, secret, t) ==
    [email |-> email, iat |-> t, exp |-> t + OneHour, sig |-> secret]

\* jwt.verify(token, secret) at clock time t: signature, then expiration
jwt_verify(token, secret, t) ==
    /\ token # NoToken
    /\ token.sig = secret
    /\ t < token.exp

----------------------------------------------------------------------------
(* users table *)

\* whether the users table has a uniqueness constraint on email
UsersEmailUnique == FALSE

UserRow(name, email, digest) == [name |-> name, email |-> email, password |-> digest]

\* indices of the rows  SELECT * FROM users WHERE email = $1  returns
MatchingRows(email) == {i \in 1..Len(users) : users[i].email = email}

\* whether  INSERT INTO users  with this email is rejected by a constraint
InsertRejected(email) == UsersEmailUnique /\ MatchingRows(email) # {}

----------------------------------------------------------------------------
(* login-service requests *)

IdleReq ==
    [op |-> "none", pc |-> "idle", name |-> "", email |-> "", password |-> "",
     hashedPass |-> NoDigest, stored |-> NoDigest, found |-> FALSE,
     err |-> "none", escaped |-> FALSE, status |-> 0, body |-> "",
     token |-> NoToken, sent |-> 0, afterReg |-> FALSE, at |-> -1]

\* res.status(s).json(b): the response of request r
Respond(r, s, b, tok) ==
    [r EXCEPT !.status = s, !.body = b, !.token = tok, !.sent = r.sent + 1,
              !.pc = "done", !.at = now]

\* a request slot is taken in order
SlotFree(i) ==
    /\ reqs[i].pc = "idle"
    /\ \A j \in Reqs : j < i => reqs[j].pc # "idle"

\* a Register of these credentials has already been answered 201
Registered(email, password) ==
    \E j \in Reqs :
        /\ reqs[j].op = "register"
        /\ reqs[j].status = 201
        /\ reqs[j].email = email
        /\ reqs[j].password = password

\* err.message of the error a catch block receives, by the call that threw
ErrorMessage(err) ==
    CASE err = "storage" -> "<message of the pg query error>"
      [] err = "hash"    -> "<message of the bcrypt error>"
      [] err = "sign"    -> "<message of the jsonwebtoken error>"
      [] OTHER           -> ""

----------------------------------------------------------------------------
(* login service: startup and clock *)

\* app.listen(PORT, ...): no check of the environment precedes it
Listen ==
    /\ listening = "init"
    /\ listening' = "up"
    /\ UNCHANGED <<JWT_SECRET, users, reqs, now, ticks>>

Tick ==
    /\ ticks < MaxTicks
    /\ \E d \in TickSteps : now' = now + d
    /\ ticks' = ticks + 1
    /\ UNCHANGED <<JWT_SECRET, listening, users, reqs>>

----------------------------------------------------------------------------
(* POST /register *)

RegisterRequest(i, name, email, password) ==
    /\ listening = "up"
    /\ SlotFree(i)
    /\ reqs' = [reqs EXCEPT ![i] =
                  [IdleReq EXCEPT !.op = "register", !.pc = "reg_hash",
                                  !.name = name, !.email = email,
                                  !.password = password]]
    /\ UNCHANGED <<JWT_SECRET, listening, users, now, ticks>>

\* const hashedPass = await bcrypt.hash(password, 10);   -- outside the try
\* bcrypt.hash rejects when password is undefined.  The rejection rejects the
\* handler's promise, and what follows depends on the framework and runtime
\* installed: the request is left unanswered, the framework answers with its
\* own error page, or the unhandled rejection ends the process.
RegisterHash(i) ==
    /\ listening = "up"
    /\ reqs[i].pc = "reg_hash"
    /\ IF reqs[i].password = Undefined
       THEN LET thrown == [reqs[i] EXCEPT !.err = "hash", !.escaped = TRUE, !.pc = "done"]
            IN  \/ /\ reqs' = [reqs EXCEPT ![i] = thrown]
                   /\ listening' = listening
                \/ /\ reqs' = [reqs EXCEPT ![i] =
                                 Respond(thrown, 500, "<framework error page>", NoToken)]
                   /\ listening' = listening
                \/ /\ reqs' = [reqs EXCEPT ![i] = thrown]
                   /\ listening' = "crashed"
       ELSE /\ \E salt \in Salts :
                 reqs' = [reqs EXCEPT ![i].hashedPass = bcrypt_hash(reqs[i].password, salt),
                                      ![i].pc = "reg_insert"]
            /\ listening' = listening
    /\ UNCHANGED <<JWT_SECRET, users, now, ticks>>

\* the acknowledgement does not wait for the INSERT's outcome
RegisterInsert_ack(i) ==
    /\ listening = "up"
    /\ reqs[i].pc = "reg_insert"
    /\ \E storageOk \in BOOLEAN :
         /\ users' = IF storageOk /\ ~InsertRejected(reqs[i].email)
                     THEN Append(users, UserRow(reqs[i].name, reqs[i].email, reqs[i].hashedPass))
                     ELSE users
         /\ reqs' = [reqs EXCEPT ![i] = Respond(reqs[i], 201, "User registered", NoToken)]
    /\ UNCHANGED <<JWT_SECRET, listening, now, ticks>>

\* try { await pool.query('INSERT ...'); res.status(201).json(...) }
\* catch (err) { res.status(500).json(...) }
RegisterInsert(i) ==
    /\ listening = "up"
    /\ reqs[i].pc = "reg_insert"
    /\ \E storageOk \in BOOLEAN :
         IF storageOk /\ ~InsertRejected(reqs[i].email)
         THEN /\ users' = Append(users, UserRow(reqs[i].name, reqs[i].email, reqs[i].hashedPass))
              /\ reqs' = [reqs EXCEPT ![i] = Respond(reqs[i], 201, "User registered", NoToken)]
         ELSE /\ users' = users
              /\ reqs' = [reqs EXCEPT ![i] =
                            Respond([reqs[i] EXCEPT !.err = "storage"], 500,
                                    "Error registering user", NoToken)]
    /\ UNCHANGED <<JWT_SECRET, listening, now, ticks>>

----------------------------------------------------------------------------
(* POST /login *)

LoginRequest(i, email, password) ==
    /\ listening = "up"
    /\ SlotFree(i)
    /\ reqs' = [reqs EXCEPT ![i] =
                  [IdleReq EXCEPT !.op = "login", !.pc = "login_query",
                                  !.email = email, !.password = password,
                                  !.afterReg = Registered(email, password)]]
    /\ UNCHANGED <<JWT_SECRET, listening, users, now, ticks>>

\* const result = await pool.query('SELECT * FROM users WHERE email = $1', [email]);
\* if (result.rows.length === 0) return res.status(401)...
\* The query has no ORDER BY: rows[0] is any of the matching rows.
LoginQuery(i) ==
    /\ listening = "up"
    /\ reqs[i].pc = "login_query"
    /\ \E storageOk \in BOOLEAN :
         IF ~storageOk
         THEN reqs' = [reqs EXCEPT ![i] =
                         Respond([reqs[i] EXCEPT !.err = "storage"], 500,
                                 "Error logging in", NoToken)]
         ELSE IF MatchingRows(reqs[i].email) = {}
         THEN reqs' = [reqs EXCEPT ![i] =
                         Respond(reqs[i], 401, "Invalid credentials", NoToken)]
         ELSE \E k \in MatchingRows(reqs[i].email) :
                reqs' = [reqs EXCEPT ![i].found = TRUE,
                                     ![i].stored = users[k].password,
                                     ![i].pc = "login_compare"]
    /\ UNCHANGED <<JWT_SECRET, listening, users, now, ticks>>

\* a 403 with its own message on a wrong password
LoginCompare_distinct(i) ==
    /\ listening = "up"
    /\ reqs[i].pc = "login_compare"
    /\ reqs' = [reqs EXCEPT ![i] =
         IF reqs[i].password = Undefined
         THEN Respond([reqs[i] EXCEPT !.err = "hash"], 500, "Error logging in", NoToken)
         ELSE IF ~bcrypt_compare(reqs[i].password, reqs[i].stored)
         THEN Respond(reqs[i], 403, "Wrong password", NoToken)
         ELSE IF JWT_SECRET = Undefined
         THEN Respond([reqs[i] EXCEPT !.err = "sign"], 500, "Error logging in", NoToken)
         ELSE Respond(reqs[i], 200, "", jwt_sign(reqs[i].email, JWT_SECRET, now))]
    /\ UNCHANGED <<JWT_SECRET, listening, users, now, ticks>>

\* the result of the comparison is not looked at
LoginCompare_unchecked(i) ==
    /\ listening = "up"
    /\ reqs[i].pc = "login_compare"
    /\ reqs' = [reqs EXCEPT ![i] =
         IF reqs[i].password = Undefined
         THEN Respond([reqs[i] EXCEPT !.err = "hash"], 500, "Error logging in", NoToken)
         ELSE IF JWT_SECRET = Undefined
         THEN Respond([reqs[i] EXCEPT !.err = "sign"], 500, "Error logging in", NoToken)
         ELSE Respond(reqs[i], 200, "", jwt_sign(reqs[i].email, JWT_SECRET, now))]
    /\ UNCHANGED <<JWT_SECRET, listening, users, now, ticks>>

\* the catch answers with the caught error's message
LoginCompare_leak(i) ==
    /\ listening = "up"
    /\ reqs[i].pc = "login_compare"
    /\ reqs' = [reqs EXCEPT ![i] =
         IF reqs[i].password = Undefined
         THEN Respond([reqs[i] EXCEPT !.err = "hash"], 500, ErrorMessage("hash"), NoToken)
         ELSE IF ~bcrypt_compare(reqs[i].password, reqs[i].stored)
         THEN Respond(reqs[i], 401, "Invalid credentials", NoToken)
         ELSE IF JWT_SECRET = Undefined
         THEN Respond([reqs[i] EXCEPT !.err = "sign"], 500, ErrorMessage("sign"), NoToken)
         ELSE Respond(reqs[i], 200, "", jwt_sign(reqs[i].email, JWT_SECRET, now))]
    /\ UNCHANGED <<JWT_SECRET, listening, users, now, ticks>>

\* a successful login stores a fresh digest of the password in the user's row
LoginCompare_rehash(i) ==
    /\ listening = "up"
    /\ reqs[i].pc = "login_compare"
    /\ reqs' = [reqs EXCEPT ![i] =
         IF reqs[i].password = Undefined
         THEN Respond([reqs[i] EXCEPT !.err = "hash"], 500, "Error logging in", NoToken)
         ELSE IF ~bcrypt_compare(reqs[i].password, reqs[i].stored)
         THEN Respond(reqs[i], 401, "Invalid credentials", NoToken)
         ELSE IF JWT_SECRET = Undefined
         THEN Respond([reqs[i] EXCEPT !.err = "sign"], 500, "Error logging in", NoToken)
         ELSE Respond(reqs[i], 200, "", jwt_sign(reqs[i].email, JWT_SECRET, now))]
    /\ users' = IF reqs[i].password # Undefined
                   /\ bcrypt_compare(reqs[i].password, reqs[i].stored)
                THEN [k \in 1..Len(users) |->
                        IF users[k].email = reqs[i].email /\ users[k].password = reqs[i].stored
                        THEN [users[k] EXCEPT !.password = bcrypt_hash(reqs[i].password, "salt2")]
                        ELSE users[k]]
                ELSE users
    /\ UNCHANGED <<JWT_SECRET, listening, now, ticks>>

\* const valid = await bcrypt.compare(password, result.rows[0].password);
\* if (!valid) return res.status(401)...
\* const token = jwt.sign({ email }, process.env.JWT_SECRET, { expiresIn: '1h' });
\* res.json({ token });       } catch (err) { res.status(500)... }
\* bcrypt.compare rejects when password is undefined; jwt.sign throws when the
\* secret is undefined; both land in the catch.
LoginCompare(i) ==
    /\ listening = "up"
    /\ reqs[i].pc = "login_compare"
    /\ reqs' = [reqs EXCEPT ![i] =
         IF reqs[i].password = Undefined
         THEN Respond([reqs[i] EXCEPT !.err = "hash"], 500, "Error logging in", NoToken)
         ELSE IF ~bcrypt_compare(reqs[i].password, reqs[i].stored)
         THEN Respond(reqs[i], 401, "Invalid credentials", NoToken)
         ELSE IF JWT_SECRET = Undefined
         THEN Respond([reqs[i] EXCEPT !.err = "sign"], 500, "Error logging in", NoToken)
         ELSE Respond(reqs[i], 200, "", jwt_sign(reqs[i].email, JWT_SECRET, now))]
    /\ UNCHANGED <<JWT_SECRET, listening, users, now, ticks>>

----------------------------------------------------------------------------------------------------------------------------------------
(* donor records service: logging *)

LogLevelSettings == {Undefined, "ERROR", "TRACE"}

\* LOG_LEVELS[level]; -1 stands for undefined (a name the table does not hold)
LOG_LEVELS(level) ==
    CASE level = "DEBUG" -> 0
      [] level = "INFO"  -> 1
      [] level = "WARN"  -> 2
      [] level = "ERROR" -> 3
      [] OTHER           -> -1

\* LOG_LEVELS[process.env.LOG_LEVEL || 'INFO']
CURRENT_LOG_LEVEL == LOG_LEVELS(IF LOG_LEVEL = Undefined THEN "INFO" ELSE LOG_LEVEL)

\* baseLogger: whether console.log is reached; a comparison with undefined
\* is false
baseLogger(level) ==
    /\ CURRENT_LOG_LEVEL # -1
    /\ LOG_LEVELS(level) >= CURRENT_LOG_LEVEL

\* logAPIActivity(method, endpoint, status, message): the events it appends
logAPIActivity(events, status) ==
    IF baseLogger(IF status = "ERROR" THEN "ERROR" ELSE "INFO")
    THEN Append(events, "log:" \o status)
    ELSE events

----------------------------------------------------------------------------
(* donor records service: requests *)

DReqs == 1..MaxDReq

BloodGroups == {"A+", "O-"}

\* req.params.id: the characters of the path segment
IdParams == { <<"1">>, <<"2">>, <<"0", "1">>, <<"x">> }

Digits == {"0", "1", "2", "3", "4", "5", "6", "7", "8", "9"}

DigitValue(c) ==
    CASE c = "0" -> 0 [] c = "1" -> 1 [] c = "2" -> 2 [] c = "3" -> 3
      [] c = "4" -> 4 [] c = "5" -> 5 [] c = "6" -> 6 [] c = "7" -> 7
      [] c = "8" -> 8 [] c = "9" -> 9

\* whether the text is accepted as an integer by  WHERE id = $1
IsInteger(text) == Len(text) > 0 /\ \A k \in 1..Len(text) : text[k] \in Digits

RECURSIVE IntegerValue(_)
IntegerValue(text) ==
    IF Len(text) = 0 THEN 0
    ELSE 10 * IntegerValue(SubSeq(text, 1, Len(text) - 1)) + DigitValue(text[Len(text)])

IdleDReq ==
    [op |-> "none", pc |-> "idle", name |-> "", bloodGroup |-> "", id |-> <<>>,
     err |-> "none", status |-> 0, body |-> "", rows |-> {}, sent |-> 0,
     events |-> <<>>]

\* res.status(s).json(b) followed by logAPIActivity(..., logStatus, ...)
DRespond(r, s, b, rows, logStatus) ==
    [r EXCEPT !.status = s, !.body = b, !.rows = rows, !.sent = r.sent + 1,
              !.pc = "done",
              !.events = logAPIActivity(Append(r.events, "response"), logStatus)]

DSlotFree(i) ==
    /\ dreqs[i].pc = "idle"
    /\ \A j \in DReqs : j < i => dreqs[j].pc # "idle"

----------------------------------------------------------------------------
(* POST /submit *)

SubmitRequest(i, name, bloodGroup) ==
    /\ DSlotFree(i)
    /\ dreqs' = [dreqs EXCEPT ![i] =
                   [IdleDReq EXCEPT !.op = "submit", !.pc = "submit_insert",
                                    !.name = name, !.bloodGroup = bloodGroup]]
    /\ UNCHANGED <<LOG_LEVEL, blood_data, nextId>>

\* await pool.query('INSERT INTO blood_data (name, blood_group) ...'): the id
\* is the table's next sequence value
SubmitInsert(i) ==
    /\ dreqs[i].pc = "submit_insert"
    /\ \E storageOk \in BOOLEAN :
         IF storageOk
         THEN /\ blood_data' = blood_data \cup
                     {[id |-> nextId, name |-> dreqs[i].name,
                       blood_group |-> dreqs[i].bloodGroup]}
              /\ nextId' = nextId + 1
              /\ dreqs' = [dreqs EXCEPT ![i] =
                             DRespond(dreqs[i], 201, "Data saved successfully", {}, "SUCCESS")]
         ELSE /\ UNCHANGED <<blood_data, nextId>>
              /\ dreqs' = [dreqs EXCEPT ![i] =
                             DRespond([dreqs[i] EXCEPT !.err = "storage"], 500,
                                      "Error saving data", {}, "ERROR")]
    /\ UNCHANGED LOG_LEVEL

----------------------------------------------------------------------------
(* GET /data *)

DataRequest(i) ==
    /\ DSlotFree(i)
    /\ dreqs' = [dreqs EXCEPT ![i] =
                   [IdleDReq EXCEPT !.op = "data", !.pc = "data_query"]]
    /\ UNCHANGED <<LOG_LEVEL, blood_data, nextId>>

\* const result = await pool.query('SELECT * FROM blood_data');
DataQuery(i) ==
    /\ dreqs[i].pc = "data_query"
    /\ \E storageOk \in BOOLEAN :
         dreqs' = [dreqs EXCEPT ![i] =
            IF storageOk
            THEN DRespond(dreqs[i], 200, "", blood_data, "SUCCESS")
            ELSE DRespond([dreqs[i] EXCEPT !.err = "storage"], 500,
                          "Error fetching data", {}, "ERROR")]
    /\ UNCHANGED <<LOG_LEVEL, blood_data, nextId>>

----------------------------------------------------------------------------
(* DELETE /data/:id *)

DeleteRequest(i, id) ==
    /\ DSlotFree(i)
    /\ dreqs' = [dreqs EXCEPT ![i] =
                   [IdleDReq EXCEPT !.op = "delete", !.pc = "delete_query", !.id = id]]
    /\ UNCHANGED <<LOG_LEVEL, blood_data, nextId>>

\* the rows  DELETE FROM blood_data WHERE id = $1  removes
DeletedRows(id) == {row \in blood_data : row.id = IntegerValue(id)}

\* the rowCount check is left out: every completed query is answered 200
DeleteQuery_nocount(i) ==
    /\ dreqs[i].pc = "delete_query"
    /\ \E storageOk \in BOOLEAN :
         IF ~storageOk \/ ~IsInteger(dreqs[i].id)
         THEN /\ blood_data' = blood_data
              /\ dreqs' = [dreqs EXCEPT ![i] =
                             DRespond([dreqs[i] EXCEPT !.err = "storage"], 500,
                                      "Error deleting data", {}, "ERROR")]
         ELSE /\ blood_data' = blood_data \ DeletedRows(dreqs[i].id)
              /\ dreqs' = [dreqs EXCEPT ![i] =
                             DRespond(dreqs[i], 200, "Data deleted successfully", {}, "SUCCESS")]
    /\ UNCHANGED <<LOG_LEVEL, nextId>>

\* const result = await pool.query('DELETE FROM blood_data WHERE id = $1', [id]);
\* if (result.rowCount === 0) { res.status(404)...; return; }
\* res.status(200)...        } catch (error) { res.status(500)... }
\* An id that is no integer makes the query fail.
DeleteQuery(i) ==
    /\ dreqs[i].pc = "delete_query"
    /\ \E storageOk \in BOOLEAN :
         IF ~storageOk \/ ~IsInteger(dreqs[i].id)
         THEN /\ blood_data' = blood_data
              /\ dreqs' = [dreqs EXCEPT ![i] =
                             DRespond([dreqs[i] EXCEPT !.err = "storage"], 500,
                                      "Error deleting data", {}, "ERROR")]
         ELSE /\ blood_data' = blood_data \ DeletedRows(dreqs[i].id)
              /\ dreqs' = [dreqs EXCEPT ![i] =
                   IF Cardinality(DeletedRows(dreqs[i].id)) = 0
                   THEN DRespond(dreqs[i], 404, "Data not found", {}, "NOT FOUND")
                   ELSE DRespond(dreqs[i], 200, "Data deleted successfully", {}, "SUCCESS")]
    /\ UNCHANGED <<LOG_LEVEL, nextId>>

----------------------------------------------------------------------------
(* The login service *)

\* users tables the service can find at startup: rows earlier runs registered
InitialUsers ==
    { <<>>,
      <<UserRow("Alice", "a@x.com", bcrypt_hash("secret123", "salt1"))>> }

InitDonorIdle ==
    /\ LOG_LEVEL = Undefined
    /\ blood_data = {}
    /\ nextId = 1
    /\ dreqs = [i \in DReqs |-> IdleDReq]

Init ==
    /\ JWT_SECRET \in Secrets \cup {Undefined}
    /\ listening = "init"
    /\ users \in InitialUsers
    /\ reqs = [i \in Reqs |-> IdleReq]
    /\ now = 0
    /\ ticks = 0
    /\ InitDonorIdle

Next ==
    \/ Listen /\ UNCHANGED donorVars
    \/ \E i \in Reqs, n \in Names, e \in Emails, p \in Passwords \cup {Undefined} :
          RegisterRequest(i, n, e, p) /\ UNCHANGED donorVars
    \/ \E i \in Reqs : RegisterHash(i) /\ UNCHANGED donorVars
    \/ \E i \in Reqs : RegisterInsert(i) /\ UNCHANGED donorVars
    \/ \E i \in Reqs, e \in Emails, p \in Passwords \cup {Undefined} :
          LoginRequest(i, e, p) /\ UNCHANGED donorVars
    \/ \E i \in Reqs : LoginQuery(i) /\ UNCHANGED donorVars
    \/ \E i \in Reqs : LoginCompare(i) /\ UNCHANGED donorVars

Spec == Init /\ [][Next]_vars

----------------------------------------------------------------------------
(* Token issuance over time: logins against a users table that holds a row, *)
(* with the clock advancing                                                 *)

InitToken ==
    /\ JWT_SECRET \in Secrets \cup {Undefined}
    /\ listening = "init"
    /\ users \in InitialUsers \ {<<>>}
    /\ reqs = [i \in Reqs |-> IdleReq]
    /\ now = 0
    /\ ticks = 0
    /\ InitDonorIdle

NextToken ==
    \/ Listen /\ UNCHANGED donorVars
    \/ Tick /\ UNCHANGED donorVars
    \/ \E i \in Reqs, e \in Emails, p \in Passwords \cup {Undefined} :
          LoginRequest(i, e, p) /\ UNCHANGED donorVars
    \/ \E i \in Reqs : LoginQuery(i) /\ UNCHANGED donorVars
    \/ \E i \in Reqs : LoginCompare(i) /\ UNCHANGED donorVars

SpecToken == InitToken /\ [][NextToken]_vars

----------------------------------------------------------------------------
(* The donor records service *)

InitDonor ==
    /\ JWT_SECRET = Undefined
    /\ listening = "init"
    /\ users = <<>>
    /\ reqs = [i \in Reqs |-> IdleReq]
    /\ now = 0
    /\ ticks = 0
    /\ LOG_LEVEL \in LogLevelSettings
    /\ blood_data = {}
    /\ nextId = 1
    /\ dreqs = [i \in DReqs |-> IdleDReq]

NextDonor ==
    \/ \E i \in DReqs, n \in Names, g \in BloodGroups :
          SubmitRequest(i, n, g) /\ UNCHANGED loginVars
    \/ \E i \in DReqs : SubmitInsert(i) /\ UNCHANGED loginVars
    \/ \E i \in DReqs : DataRequest(i) /\ UNCHANGED loginVars
    \/ \E i \in DReqs : DataQuery(i) /\ UNCHANGED loginVars
    \/ \E i \in DReqs, id \in IdParams :
          DeleteRequest(i, id) /\ UNCHANGED loginVars
    \/ \E i \in DReqs : DeleteQuery(i) /\ UNCHANGED loginVars

SpecDonor == InitDonor /\ [][NextDonor]_vars

----------------------------------------------------------------------------
(* Properties *)

Response(r) == [status |-> r.status, body |-> r.body, token |-> r.token]

InvalidCredentials == [status |-> 401, body |-> "Invalid credentials", token |-> NoToken]

LoginDone(i) == reqs[i].op = "login" /\ reqs[i].pc = "done"
RegisterDone(i) == reqs[i].op = "register" /\ reqs[i].pc = "done"

\* the lookup found a row and the supplied password does not verify against it
WrongPassword(i) ==
    /\ LoginDone(i)
    /\ reqs[i].found
    /\ reqs[i].password # Undefined
    /\ ~bcrypt_compare(reqs[i].password, reqs[i].stored)

\* the lookup completed and found no row
UnknownEmail(i) ==
    /\ LoginDone(i)
    /\ reqs[i].err = "none"
    /\ ~reqs[i].found

\* C1: a Login that follows a Register answered 201 with the same email and
\* password answers 200 with a non-empty token (storage working and the
\* signing secret configured).
RegisterThenLoginYieldsToken ==
    \A i \in Reqs :
        (/\ LoginDone(i)
         /\ reqs[i].afterReg
         /\ reqs[i].err = "none"
         /\ JWT_SECRET # Undefined)
        => (reqs[i].status = 200 /\ reqs[i].token # NoToken)

\* C2: a Login with a registered email and a wrong password and a Login with
\* an unknown email get the same response, 401 {error: 'Invalid credentials'}.
NonEnumeration ==
    \A i, j \in Reqs :
        (WrongPassword(i) /\ UnknownEmail(j))
        => (Response(reqs[i]) = Response(reqs[j]) /\ Response(reqs[i]) = InvalidCredentials)

NonEnumerationWitness ==
    \E i, j \in Reqs : WrongPassword(i) /\ UnknownEmail(j)

\* C3: a token is returned only by a Login whose email has a row in the users
\* table against whose digest the supplied password verifies, and the token's
\* payload is that email.
TokenOnlyForVerifiedUser ==
    \A i \in Reqs :
        (reqs[i].token # NoToken \/ reqs[i].status = 200)
        => /\ reqs[i].op = "login"
           /\ reqs[i].token # NoToken
           /\ reqs[i].token.email = reqs[i].email
           /\ \E k \in 1..Len(users) :
                 /\ users[k].email = reqs[i].email
                 /\ users[k].password = reqs[i].stored
                 /\ bcrypt_compare(reqs[i].password, users[k].password)

TokenIssuedWitness ==
    \E i \in Reqs : LoginDone(i) /\ reqs[i].status = 200 /\ reqs[i].token.email = reqs[i].email

\* C4: the users table holds at most one row per email.
AtMostOneRowPerEmail ==
    \A k, l \in 1..Len(users) : users[k].email = users[l].email => k = l

\* C5: the step of Register that answers: 201 'User registered' exactly when
\* the INSERT succeeded, one row {name, email, digest of password} appended and
\* no token; otherwise 500 'Error registering user' and the table unchanged.
RegisterAnswer ==
    \A i \in Reqs :
        (reqs[i].pc = "reg_insert" /\ reqs'[i].pc = "done")
        => /\ reqs'[i].token = NoToken
           /\ reqs'[i].sent = 1
           /\ \/ /\ reqs'[i].status = 201
                 /\ reqs'[i].body = "User registered"
                 /\ reqs'[i].err = "none"
                 /\ Len(users') = Len(users) + 1
                 /\ SubSeq(users', 1, Len(users)) = users
                 /\ users'[Len(users')].name = reqs[i].name
                 /\ users'[Len(users')].email = reqs[i].email
                 /\ \E salt \in Salts :
                       users'[Len(users')].password = bcrypt_hash(reqs[i].password, salt)
              \/ /\ reqs'[i].status = 500
                 /\ reqs'[i].body = "Error registering user"
                 /\ reqs'[i].err = "storage"
                 /\ users' = users

RegisterEffect == [][RegisterAnswer]_vars

RegisterEffectWitness ==
    \E i, j \in Reqs :
        /\ RegisterDone(i) /\ reqs[i].status = 201
        /\ RegisterDone(j) /\ reqs[j].status = 500 /\ reqs[j].err = "storage"

\* times at which a token issued at time t is presented
SampleTimes(t) == {t, t + 1, t + OneHour - 1, t + OneHour + 1, t + 2 * OneHour, now}

\* C6: a token issued at time t expires at t + 1 hour: verification with the
\* signing secret succeeds from t until the expiration and fails past it.
TokenLifetime ==
    \A i \in Reqs :
        reqs[i].status = 200
        => /\ reqs[i].token.exp = reqs[i].at + OneHour
           /\ \A t \in SampleTimes(reqs[i].at) :
                 /\ (reqs[i].at <= t /\ t < reqs[i].at + OneHour)
                       => jwt_verify(reqs[i].token, JWT_SECRET, t)
                 /\ t > reqs[i].at + OneHour
                       => ~jwt_verify(reqs[i].token, JWT_SECRET, t)

TokenExpiredWitness ==
    \E i \in Reqs :
        /\ reqs[i].status = 200
        /\ now > reqs[i].at + OneHour
        /\ ~jwt_verify(reqs[i].token, JWT_SECRET, now)

\* C7: the login service is never listening without a signing secret.
FailFastWithoutSecret ==
    listening = "up" => JWT_SECRET # Undefined

\* C8: the step of DELETE /data/:id that answers: 200 exactly when a row with
\* that id existed, and then that row and no other is removed; 404 when there
\* is none and 500 on a query error, the table unchanged in both; an id that
\* a DELETE already removed is not answered 200 again.
DeleteAnswer ==
    \A i \in DReqs :
        (dreqs[i].pc = "delete_query" /\ dreqs'[i].pc = "done")
        => LET id == dreqs[i].id
               existing == {row \in blood_data : IsInteger(id) /\ row.id = IntegerValue(id)}
           IN  /\ dreqs'[i].sent = 1
               /\ \/ /\ dreqs'[i].status = 200
                     /\ Cardinality(existing) = 1
                     /\ blood_data' = blood_data \ existing
                  \/ /\ dreqs'[i].status = 404
                     /\ dreqs'[i].err = "none"
                     /\ existing = {}
                     /\ blood_data' = blood_data
                  \/ /\ dreqs'[i].status = 500
                     /\ dreqs'[i].err = "storage"
                     /\ blood_data' = blood_data
               /\ (\E j \in DReqs :
                      /\ j # i
                      /\ dreqs[j].op = "delete"
                      /\ dreqs[j].status = 200
                      /\ IsInteger(id)
                      /\ IntegerValue(dreqs[j].id) = IntegerValue(id))
                  => dreqs'[i].status # 200

DeleteEffect == [][DeleteAnswer]_vars

DeleteTwiceWitness ==
    \E i, j \in DReqs :
        /\ dreqs[i].op = "delete" /\ dreqs[i].status = 200
        /\ dreqs[j].op = "delete" /\ dreqs[j].status = 404
        /\ IntegerValue(dreqs[i].id) = IntegerValue(dreqs[j].id)

\* C9: an error of the password hasher or of storage in Register or Login is
\* caught in the handler and answered with the handler's generic 500.
ErrorsCaughtInHandler ==
    \A i \in Reqs :
        (reqs[i].pc = "done" /\ reqs[i].err \in {"hash", "storage"})
        => /\ ~reqs[i].escaped
           /\ reqs[i].status = 500
           /\ reqs[i].body \in {"Error registering user", "Error logging in"}

\* C10: a request whose handler has run to its end has received exactly one
\* response.
EveryRequestAnswered ==
    \A i \in Reqs : reqs[i].pc = "done" => reqs[i].sent = 1

\* the three shapes of a Login response
LoginShapes(r) ==
    \/ r.status = 200 /\ r.body = "" /\ r.token # NoToken
    \/ r.status = 401 /\ r.body = "Invalid credentials" /\ r.token = NoToken
    \/ r.status = 500 /\ r.body = "Error logging in" /\ r.token = NoToken

\* C11: a Login response is 200 {token}, 401 {error: 'Invalid credentials'} or
\* 500 {error: 'Error logging in'}; a failed lookup, comparison or signing
\* gives the 500 shape, and no body is the message of the caught error.
LoginResponseShapes ==
    \A i \in Reqs :
        LoginDone(i)
        => /\ reqs[i].sent = 1
           /\ LoginShapes(reqs[i])
           /\ reqs[i].err \in {"storage", "hash", "sign"}
                 => reqs[i].status = 500 /\ reqs[i].body = "Error logging in"
           /\ reqs[i].err = "none" => reqs[i].status \in {200, 401}
           /\ \A e \in {"storage", "hash", "sign"} : reqs[i].body # ErrorMessage(e)

LoginSignFailureWitness ==
    \E i, j \in Reqs :
        /\ LoginDone(i) /\ reqs[i].err = "sign" /\ reqs[i].status = 500
        /\ LoginDone(j) /\ reqs[j].err = "storage" /\ reqs[j].status = 500

\* C12: a request that fails has a log entry written before its error
\* response is sent.
FailuresLoggedBeforeResponse ==
    \A i \in DReqs :
        (dreqs[i].pc = "done" /\ dreqs[i].status = 500)
        => \E k, l \in 1..Len(dreqs[i].events) :
              /\ k < l
              /\ dreqs[i].events[k] = "log:ERROR"
              /\ dreqs[i].events[l] = "response"

\* C13: a step of the login service keeps every row of the users table as it
\* is; only a Register answered 201 adds a row, a step of a Login leaves the
\* table unchanged, and the service holds no other stored state.
UsersKept ==
    /\ Len(users') >= Len(users)
    /\ SubSeq(users', 1, Len(users)) = users
    /\ JWT_SECRET' = JWT_SECRET
    /\ \A i \in Reqs :
          (reqs'[i].op = "login" /\ reqs'[i] # reqs[i]) => users' = users
    /\ users' # users
          => \E i \in Reqs :
                /\ reqs[i].pc = "reg_insert"
                /\ reqs'[i].status = 201
                /\ users' = Append(users, UserRow(reqs[i].name, reqs[i].email,
                                                  reqs[i].hashedPass))

UsersAppendOnly == [][UsersKept]_vars

RegisteredThenLoggedInWitness ==
    \E i, j \in Reqs :
        /\ RegisterDone(i) /\ reqs[i].status = 201
        /\ LoginDone(j) /\ reqs[j].status = 200 /\ reqs[j].email = reqs[i].email
        /\ \E k \in 1..Len(users) :
              /\ users[k].email = reqs[i].email
              /\ users[k].password = reqs[i].hashedPass

====
